---- MODULE Spec2Model ----
(***************************************************************************)
(* Model of the Google Analytics realtime exporter (src/ganalytics.go):    *)
(* the poll loop of main, the per-metric goroutine collectMetric, the      *)
(* dynamic registration registerMetricVec, and the pure helpers            *)
(* buildMetricLabel, getDimensions and strconv.ParseFloat as the code      *)
(* uses it.                                                                *)
(*                                                                         *)
(* Go strings are sequences of one-character strings, so that the string   *)
(* functions are computed character by character as the code computes      *)
(* them.                                                                   *)
(***************************************************************************)
EXTENDS Integers, Sequences, FiniteSets, TLC

(* ------------------------------------------------------------------ *)
(* Bounds of the model                                                *)
(* ------------------------------------------------------------------ *)

\* number of iterations of the poll loop of main that the model follows
MaxTicks == 2
\* number of goroutines main starts in the model
MaxGoroutines == 3
\* longest raw string given to buildMetricLabel in PureSpec
MaxRawLen == 3
\* longest cell given to strconv.ParseFloat in PureSpec
MaxCellLen == 5
\* longest config.Dimensions list given to getDimensions in PureSpec
MaxEntries == 2

(* ------------------------------------------------------------------ *)
(* Go strings                                                         *)
(* ------------------------------------------------------------------ *)

Lower == {"a","b","c","d","e","f","g","h","i","j","k","l","m",
          "n","o","p","q","r","s","t","u","v","w","x","y","z"}
Upper == {"A","B","C","D","E","F","G","H","I","J","K","L","M",
          "N","O","P","Q","R","S","T","U","V","W","X","Y","Z"}
Digit == {"0","1","2","3","4","5","6","7","8","9"}

\* InClass with the class [a-zA-Z0-9_] (the class \w)
InClassWord(c) == c \in Lower \cup Upper \cup Digit \cup {"_"}

\* the character class [a-zA-Z0-9] of the regular expression of buildMetricLabel
InClass(c) == c \in Lower \cup Upper \cup Digit

\* all strings over alphabet A of length at most n
RECURSIVE StringsUpTo(_, _)
StringsUpTo(A, n) ==
    IF n = 0 THEN {<<>>}
    ELSE LET shorter == StringsUpTo(A, n - 1)
         IN  shorter \cup {Append(s, c) : s \in {t \in shorter : Len(t) = n - 1}, c \in A}

\* strings.Join(elems, sep)
RECURSIVE Join(_, _)
Join(elems, sep) ==
    IF Len(elems) = 0 THEN <<>>
    ELSE IF Len(elems) = 1 THEN elems[1]
    ELSE elems[1] \o sep \o Join(Tail(elems), sep)

\* strings.Replace(s, old, new, n) for a one-character old; n < 0 replaces all
RECURSIVE Replace(_, _, _, _)
Replace(s, old, new, n) ==
    IF Len(s) = 0 \/ n = 0 THEN s
    ELSE IF Head(s) = old THEN new \o Replace(Tail(s), old, new, n - 1)
    ELSE <<Head(s)>> \o Replace(Tail(s), old, new, n)

\* strings.Contains(s, substr)
Contains(s, substr) ==
    \E i \in 1..(Len(s) - Len(substr) + 1) : SubSeq(s, i, i + Len(substr) - 1) = substr

NotSet == <<"(","n","o","t"," ","s","e","t",")">>

(* ------------------------------------------------------------------ *)
(* buildMetricLabel, src/ganalytics.go:143-148                        *)
(* ------------------------------------------------------------------ *)

\* first index after the longest run of characters outside the class that
\* starts at i: one match of "[^a-zA-Z0-9]+"
RECURSIVE MatchEnd(_, _)
MatchEnd(s, i) ==
    IF i <= Len(s) /\ ~InClass(s[i]) THEN MatchEnd(s, i + 1) ELSE i

\* reg.ReplaceAllString(s, repl) for reg = "[^a-zA-Z0-9]+", scanning from i
RECURSIVE ReplaceAllString(_, _, _)
ReplaceAllString(s, i, repl) ==
    IF i > Len(s) THEN <<>>
    ELSE IF ~InClass(s[i]) THEN repl \o ReplaceAllString(s, MatchEnd(s, i), repl)
    ELSE <<s[i]>> \o ReplaceAllString(s, i + 1, repl)

Prefix == <<"r","t",":">>

\* buildMetricLabel that joins nothing to the prefix when no character is kept
buildMetricLabelOrPrefix(action) ==
    LET kept == ReplaceAllString(action, 1, <<>>)
    IN  IF kept = <<>> THEN Prefix
        ELSE Replace(Join(<<Prefix, kept>>, <<"_">>), " ", <<"_">>, -1)

buildMetricLabel(action) ==
    LET rows == <<Prefix, ReplaceAllString(action, 1, <<>>)>>
    IN  Replace(Join(rows, <<"_">>), " ", <<"_">>, -1)

(* ------------------------------------------------------------------ *)
(* getDimensions, src/ganalytics.go:151-158                           *)
(* ------------------------------------------------------------------ *)

\* dimensionMap[metric] of a Go map: the zero value (nil slice) if absent
MapIndex(dimensionMap, metric) ==
    IF metric \in DOMAIN dimensionMap THEN dimensionMap[metric] ELSE <<>>

\* the loop of getDimensions over entries i..Len(confDimensions)
RECURSIVE DimensionsLoop(_, _, _, _)
DimensionsLoop(confDimensions, metric, i, dimensions) ==
    IF i > Len(confDimensions) THEN dimensions
    ELSE DimensionsLoop(confDimensions, metric, i + 1,
                        Join(MapIndex(confDimensions[i], metric), <<",">>))

getDimensions(confDimensions, metric) ==
    DimensionsLoop(confDimensions, metric, 1, <<>>)

(* ------------------------------------------------------------------ *)
(* strconv.ParseFloat(s, 64) as called at src/ganalytics.go:127, 137  *)
(* ------------------------------------------------------------------ *)

(* A float64 is the record [kind, mant, exp]: kind "num" stands for     *)
(* mant * 10^exp with mant carrying no trailing decimal zero, kind      *)
(* "inf" for +Inf (mant = 1) or -Inf (mant = -1).  Binary rounding is   *)
(* not modelled: the cells of the model have few significant digits.    *)
Num(mant, exp) == [kind |-> "num", mant |-> mant, exp |-> exp]
Inf(sign) == [kind |-> "inf", mant |-> sign, exp |-> 0]
Zero == Num(0, 0)

\* largest decimal exponent of a finite float64 (math.MaxFloat64 = 1.79e308)
MaxDecExp == 308
\* below 10^MinDecExp a decimal literal rounds to zero (5e-324 is the least float64)
MinDecExp == -324

\* first index after the run of decimal digits that starts at i
RECURSIVE DigitsEnd(_, _)
DigitsEnd(s, i) ==
    IF i <= Len(s) /\ s[i] \in Digit THEN DigitsEnd(s, i + 1) ELSE i

DigitVal(c) ==
    CASE c = "0" -> 0 [] c = "1" -> 1 [] c = "2" -> 2 [] c = "3" -> 3 [] c = "4" -> 4
      [] c = "5" -> 5 [] c = "6" -> 6 [] c = "7" -> 7 [] c = "8" -> 8 [] c = "9" -> 9

\* value of a run of decimal digits
RECURSIVE DigitsVal(_)
DigitsVal(ds) ==
    IF Len(ds) = 0 THEN 0
    ELSE 10 * DigitsVal(SubSeq(ds, 1, Len(ds) - 1)) + DigitVal(ds[Len(ds)])

\* mant * 10^exp without trailing decimal zeros in mant
RECURSIVE Normal(_, _)
Normal(mant, exp) ==
    IF mant = 0 THEN Zero
    ELSE IF mant % 10 = 0 THEN Normal(mant \div 10, exp + 1)
    ELSE Num(mant, exp)

\* number of decimal digits of a positive integer
RECURSIVE NumDigits(_)
NumDigits(n) == IF n < 10 THEN 1 ELSE 1 + NumDigits(n \div 10)

IsSign(s, i) == i <= Len(s) /\ s[i] \in {"+", "-"}
SignAt(s, i) == IF i <= Len(s) /\ s[i] = "-" THEN -1 ELSE 1

(* The decimal grammar of ParseFloat: [sign] digits [. digits] [e [sign]   *)
(* digits], with at least one mantissa digit.  The result is [f, err]:    *)
(* a syntax error returns f = 0, a well-formed literal beyond the float64 *)
(* range returns f = +-Inf with err = ErrRange.  The literals "inf",      *)
(* "nan" and the hexadecimal form are outside the alphabet of the cells   *)
(* of the model.                                                          *)
ParseFloat(s) ==
    LET i0      == IF IsSign(s, 1) THEN 2 ELSE 1
        i1      == DigitsEnd(s, i0)
        hasDot  == i1 <= Len(s) /\ s[i1] = "."
        i2      == IF hasDot THEN DigitsEnd(s, i1 + 1) ELSE i1
        intDs   == SubSeq(s, i0, i1 - 1)
        fracDs  == IF hasDot THEN SubSeq(s, i1 + 1, i2 - 1) ELSE <<>>
        hasExp  == i2 <= Len(s) /\ s[i2] \in {"e", "E"}
        e0      == IF IsSign(s, i2 + 1) THEN i2 + 2 ELSE i2 + 1
        e1      == DigitsEnd(s, e0)
        expDs   == IF hasExp THEN SubSeq(s, e0, e1 - 1) ELSE <<>>
        last    == IF hasExp THEN e1 ELSE i2
        wellFormed == /\ Len(intDs) + Len(fracDs) > 0
                      /\ hasExp => Len(expDs) > 0
                      /\ last = Len(s) + 1
        sign    == SignAt(s, 1)
        mant    == DigitsVal(intDs \o fracDs)
        exp     == (IF hasExp THEN SignAt(s, i2 + 1) * DigitsVal(expDs) ELSE 0) - Len(fracDs)
        n       == Normal(mant, exp)
        decExp  == n.exp + NumDigits(n.mant) - 1
    IN  IF ~wellFormed THEN [f |-> Zero, err |-> "ErrSyntax"]
        ELSE IF n.mant = 0 THEN [f |-> Zero, err |-> "nil"]
        ELSE IF decExp > MaxDecExp THEN [f |-> Inf(sign), err |-> "ErrRange"]
        ELSE IF decExp < MinDecExp THEN [f |-> Zero, err |-> "nil"]
        ELSE [f |-> Num(sign * n.mant, n.exp), err |-> "nil"]

\* ParsedValue that yields -1 where ParseFloat reports an error
ParsedValueOrMinusOne(cell) ==
    IF ParseFloat(cell).err = "nil" THEN ParseFloat(cell).f ELSE Num(-1, 0)

\* valf, _ := strconv.ParseFloat(cell, 64): the error is dropped
ParsedValue(cell) == ParseFloat(cell).f

(* ------------------------------------------------------------------ *)
(* Configuration (type conf, src/ganalytics.go:35-41) of the system   *)
(* specification                                                      *)
(* ------------------------------------------------------------------ *)

ActiveUsers == <<"r","t",":","a">>
PageViews == <<"r","t",":","p">>
Country == <<"r","t",":","c">>
Device == <<"r","t",":","d">>
\* two metric names that init() gives the same series name, ga_rt_a_b
ColonFirst == <<"r","t",":","a","_","b">>
UnderscoreFirst == <<"r","t","_","a",":","b">>

\* config.Dimensions: one map that gives both metrics two dimensions
Dimensions == << (ActiveUsers :> <<Country, Device>>) @@ (PageViews :> <<Country, Device>>) >>

(* ------------------------------------------------------------------ *)
(* Responses of the data source (m.Rows of getc.Do)                   *)
(* ------------------------------------------------------------------ *)

US == <<"U","S">>
BR == <<"B","R">>
Mobile == <<"m","o","b","i","l","e">>
MoBile == <<"m","o"," ","b","i","l","e">>

\* the responses the data source may return to a request
OneRow == << << <<"4","2",".","5">> >> >>
OneRowAbc == << << <<"a","b","c">> >> >>
NoRow == << >>
DroppedThenRow == << <<NotSet \o <<" ","x">>, <<"x">>, <<"1">> >>, <<US, Mobile, <<"7">> >> >>
TwoRows == << <<US, MoBile, <<"a","b","c">> >>, <<BR, Mobile, <<"3">> >> >>
ShortRows == << <<US, <<"7">> >>, <<BR, <<"3">> >> >>
DroppedThenBR == << <<NotSet, <<"x">>, <<"1">> >>, <<BR, Mobile, <<"3">> >> >>
OneRowVec == << <<US, Mobile, <<"7">> >> >>

Results ==
    <<OneRow, OneRowAbc, NoRow, DroppedThenRow, TwoRows, ShortRows, DroppedThenBR, OneRowVec>>

\* the index in Results of response rows
RECURSIVE IdFrom(_, _)
IdFrom(rows, i) == IF Results[i] = rows THEN i ELSE IdFrom(rows, i + 1)
Id(rows) == IdFrom(rows, 1)

(* buildMetricLabel(row[1]) of line 135 for row i of response r, and the   *)
(* valf of strconv.ParseFloat for cell k of that row (lines 127, 137):    *)
(* functions of the response alone, tabulated once.                       *)
Labels ==
    [r \in DOMAIN Results |->
        [i \in DOMAIN Results[r] |->
            IF Len(Results[r][i]) >= 2 THEN buildMetricLabel(Results[r][i][2]) ELSE <<>>]]

Values ==
    [r \in DOMAIN Results |->
        [i \in DOMAIN Results[r] |->
            [k \in DOMAIN Results[r][i] |-> ParsedValue(Results[r][i][k])]]]

(* A run of the exporter: config.Metrics, and for each configured metric   *)
(* the responses the data source holds for it during the run (the shape   *)
(* of a response follows the metric and the traffic of the moment).  In   *)
(* every run a request may also fail or never return.                     *)
Run(metrics, source) == [Metrics |-> metrics, source |-> source]

Runs ==
    { Run(<<ActiveUsers, PageViews>>,
          <<{Id(OneRow), Id(OneRowAbc), Id(NoRow)}, {Id(OneRow), Id(NoRow)}>>),
      Run(<<ActiveUsers, PageViews>>,
          <<{Id(DroppedThenRow)}, {Id(DroppedThenRow), Id(OneRow)}>>),
      Run(<<ActiveUsers>>,
          <<{Id(DroppedThenRow), Id(DroppedThenBR)}>>),
      Run(<<ActiveUsers, PageViews>>,
          <<{Id(TwoRows)}, {Id(OneRowAbc)}>>),
      Run(<<ActiveUsers>>,
          <<{Id(ShortRows), Id(OneRow)}>>),
      Run(<<PageViews>>,
          <<{Id(OneRowVec), Id(DroppedThenBR)}>>),
      Run(<<ColonFirst, UnderscoreFirst>>,
          <<{Id(OneRow)}, {Id(OneRow)}>>),
      Run(<<ActiveUsers, ActiveUsers>>,
          <<{Id(OneRow)}, {Id(OneRow)}>>) }

(* ------------------------------------------------------------------ *)
(* The metrics library: collectors and prometheus.Register            *)
(* ------------------------------------------------------------------ *)

GaPrefix == <<"g","a","_">>
HelpPrefix == <<"G","o","o","g","l","e"," ","A","n","a","l","y","t","i","c","s"," ">>

\* Name: fmt.Sprintf("ga_%s", strings.Replace(metric, ":", "_", 1))
SeriesName(metric) == GaPrefix \o Replace(metric, ":", <<"_">>, 1)

\* prometheus.NewGauge(GaugeOpts{...}) of init: the collector with handle h
NewGauge(metric, h) ==
    [kind |-> "Gauge", name |-> SeriesName(metric), help |-> HelpPrefix \o metric,
     labels |-> <<>>, h |-> h]

\* prometheus.NewGaugeVec(GaugeOpts{...}, []string{"category"}) of registerMetricVec
NewGaugeVec(metric, h) ==
    [kind |-> "GaugeVec", name |-> SeriesName(metric), help |-> HelpPrefix \o metric,
     labels |-> <<"category">>, h |-> h]

(* prometheus.Register(c) on the default registry reg (collectors by      *)
(* fully-qualified name; the constant label job is the same for all):     *)
(* the whole call runs under the mutex of the registry.  A name already   *)
(* registered with other label names or another help string is refused,   *)
(* a collector equal in name, labels and help is AlreadyRegisteredError   *)
(* carrying the existing collector.                                       *)
Register(reg, c) ==
    IF c.name \notin DOMAIN reg
    THEN [err |-> "nil", reg |-> (c.name :> c) @@ reg, existing |-> c]
    ELSE IF reg[c.name].help # c.help \/ reg[c.name].labels # c.labels
    THEN [err |-> "inconsistent", reg |-> reg, existing |-> c]
    ELSE [err |-> "AlreadyRegistered", reg |-> reg, existing |-> reg[c.name]]

(* init(), src/ganalytics.go:47-55, from metric i on: promGauge[metric]   *)
(* is assigned a new Gauge and the result of Register is dropped.         *)
RECURSIVE InitLoop(_, _, _, _)
InitLoop(metrics, i, pg, reg) ==
    IF i > Len(metrics) THEN [promGauge |-> pg, registry |-> reg]
    ELSE LET g == NewGauge(metrics[i], <<"g", i>>)
         IN  InitLoop(metrics, i + 1, (metrics[i] :> g) @@ pg, Register(reg, g).reg)

AfterInit(metrics) == InitLoop(metrics, 1, <<>>, <<>>)

(* the error prometheus.Register returns at line 54 for metric i of the   *)
(* list: the registry then holds the Gauges of the metrics before i       *)
InitRegisterErr(metrics, i) ==
    Register(AfterInit(SubSeq(metrics, 1, i - 1)).registry,
             NewGauge(metrics[i], <<"g", i>>)).err

(* ------------------------------------------------------------------ *)
(* State                                                              *)
(* ------------------------------------------------------------------ *)

VARIABLES
    config,       \* the run: config.Metrics and the responses of the data source
    fatal,        \* "" while the process runs, else the panic that ended it
    tick,         \* iteration of the for loop of main, src/ganalytics.go:101
    mainPc,       \* index of the metric main starts next; NumMetrics + 1: in time.Sleep
    wk,           \* the goroutines of src/ganalytics.go:104, by <<tick, metric index>>
    promGauge,    \* map promGauge: metric -> Gauge collector
    promGaugeVec, \* map promGaugeVec: label -> handle of a GaugeVec
    registry,     \* prometheus default registry: series name -> collector
    gaugeVal,     \* value of each Gauge, by handle
    vecVal,       \* values of each GaugeVec, by handle: category -> value
    lastWrite,    \* history: <<label, category>> -> value of the last Set at line 138
    pArg,         \* PureSpec: the call under test
    pRes          \* PureSpec: its result

sysVars == <<config, fatal, tick, mainPc, wk, promGauge, promGaugeVec, registry, gaugeVal,
             vecVal, lastWrite>>
pureVars == <<pArg, pRes>>
vars == <<config, fatal, tick, mainPc, wk, promGauge, promGaugeVec, registry, gaugeVal,
          vecVal, lastWrite, pArg, pRes>>

NumMetrics == Len(config.Metrics)

\* the goroutines main has started so far
Started == (tick - 1) * NumMetrics + (mainPc - 1)
WorkerIds == (1..MaxTicks) \X (1..NumMetrics)

NoHandle == <<"nil">>

IdleWorker ==
    [pc |-> "none", res |-> 0, row |-> 0, dims |-> <<>>, are |-> NoHandle, log |-> <<>>]

NoCall == [fn |-> "none", s |-> <<>>, conf |-> <<>>]
NoResult == [done |-> FALSE, out |-> <<>>, pf |-> [f |-> Zero, err |-> "nil"]]

\* the state when main enters its for loop: init() has run
SysInit ==
    /\ config \in Runs
    /\ fatal = ""
    /\ tick = 1
    /\ mainPc = 1
    /\ wk = [w \in WorkerIds |-> IdleWorker]
    /\ promGauge = AfterInit(config.Metrics).promGauge
    /\ registry = AfterInit(config.Metrics).registry
    /\ promGaugeVec = <<>>
    /\ gaugeVal = [h \in {<<"g", i>> : i \in 1..NumMetrics} |-> Zero]
    /\ vecVal = <<>>
    /\ lastWrite = <<>>

Init ==
    /\ SysInit
    /\ pArg = NoCall
    /\ pRes = NoResult

(* ------------------------------------------------------------------ *)
(* main, src/ganalytics.go:101-110                                    *)
(* ------------------------------------------------------------------ *)

\* Go that skips a metric while an earlier goroutine of that metric is running
GoSkipIfBusy(i) ==
    /\ fatal = ""
    /\ mainPc = i
    /\ Started < MaxGoroutines
    /\ wk' = IF \E t \in 1..(tick - 1) : wk[<<t, i>>].pc \notin {"none", "done"}
             THEN wk
             ELSE [wk EXCEPT ![<<tick, i>>].pc = "Do"]
    /\ mainPc' = i + 1
    /\ UNCHANGED <<config, fatal, tick, promGauge, promGaugeVec, registry, gaugeVal, vecVal,
                   lastWrite, pureVars>>

\* go func(metric string) {...}(metric) for the metric at index i
Go(i) ==
    /\ fatal = ""
    /\ mainPc = i
    /\ Started < MaxGoroutines
    /\ wk' = [wk EXCEPT ![<<tick, i>>].pc = "Do"]
    /\ mainPc' = i + 1
    /\ UNCHANGED <<config, fatal, tick, promGauge, promGaugeVec, registry, gaugeVal, vecVal,
                   lastWrite, pureVars>>

\* Sleep that also waits until every goroutine started so far has returned
SleepWaitsForWorkers ==
    /\ fatal = ""
    /\ mainPc = NumMetrics + 1
    /\ tick < MaxTicks
    /\ \A w \in DOMAIN wk : wk[w].pc \in {"none", "done"}
    /\ tick' = tick + 1
    /\ mainPc' = 1
    /\ UNCHANGED <<config, fatal, wk, promGauge, promGaugeVec, registry, gaugeVal, vecVal,
                   lastWrite, pureVars>>

\* time.Sleep returns and the for loop starts its next iteration
Sleep ==
    /\ fatal = ""
    /\ mainPc = NumMetrics + 1
    /\ tick < MaxTicks
    /\ tick' = tick + 1
    /\ mainPc' = 1
    /\ UNCHANGED <<config, fatal, wk, promGauge, promGaugeVec, registry, gaugeVal, vecVal,
                   lastWrite, pureVars>>

(* ------------------------------------------------------------------ *)
(* collectMetric, src/ganalytics.go:114-141                           *)
(* ------------------------------------------------------------------ *)

MetricOf(w) == config.Metrics[w[2]]
RowsOf(w) == Results[wk[w].res]
RowOf(w) == RowsOf(w)[wk[w].row]

\* Dropped with an equality test in place of strings.Contains
DroppedIfEqual(row) == row[1] = NotSet

\* strings.Contains(category, "(not set)") of line 134, category := row[0]
Dropped(row) == Contains(row[1], NotSet)

\* the for loop of line 132 from row i on: the first row that is not dropped
RECURSIVE NextRow(_, _)
NextRow(rows, i) ==
    IF i > Len(rows) THEN i
    ELSE IF Dropped(rows[i]) THEN NextRow(rows, i + 1)
    ELSE i

\* the position of a goroutine whose loop continues at row i
AtRow(rec, rows, i) ==
    LET j == NextRow(rows, i)
    IN  IF j > Len(rows) THEN [rec EXCEPT !.pc = "done", !.row = j]
        ELSE [rec EXCEPT !.pc = "New59", !.row = j]

Entry(op, name, cat, val) == [op |-> op, name |-> name, cat |-> cat, val |-> val]

\* the process ends: a panic of goroutine w that nothing recovers
Panic(w, reason) ==
    /\ fatal' = reason
    /\ wk' = [wk EXCEPT ![w].pc = "panic"]
    /\ UNCHANGED <<config, tick, mainPc, promGauge, promGaugeVec, registry, gaugeVal, vecVal,
                   lastWrite, pureVars>>

\* the process ends: a fatal error thrown by the Go runtime
Throw(reason) ==
    /\ fatal' = reason
    /\ UNCHANGED <<config, tick, mainPc, wk, promGauge, promGaugeVec, registry, gaugeVal,
                   vecVal, lastWrite, pureVars>>

\* DoError that logs the error and returns from collectMetric
DoErrorLogged(w) ==
    /\ fatal = ""
    /\ wk[w].pc = "Do"
    /\ wk' = [wk EXCEPT ![w].pc = "done"]
    /\ UNCHANGED <<config, fatal, tick, mainPc, promGauge, promGaugeVec, registry, gaugeVal,
                   vecVal, lastWrite, pureVars>>

\* getc.Do() returns an error: panic(err), line 123
DoError(w) ==
    /\ fatal = ""
    /\ wk[w].pc = "Do"
    /\ Panic(w, "fetch error")

\* getc.Do() never returns
DoHang(w) ==
    /\ fatal = ""
    /\ wk[w].pc = "Do"
    /\ wk' = [wk EXCEPT ![w].pc = "hung"]
    /\ UNCHANGED <<config, fatal, tick, mainPc, promGauge, promGaugeVec, registry, gaugeVal,
                   vecVal, lastWrite, pureVars>>

\* DoReturn that sets the Gauge of the metric to 0 when the result has no row
DoReturnZeroResets(w, r) ==
    /\ fatal = ""
    /\ wk[w].pc = "Do"
    /\ r \in config.source[w[2]]
    /\ LET rec == [wk[w] EXCEPT !.res = r, !.dims = getDimensions(Dimensions, MetricOf(w))]
       IN  wk' = [wk EXCEPT ![w] =
                    IF Len(Results[r]) = 1 THEN [rec EXCEPT !.pc = "Set128", !.row = 1]
                    ELSE AtRow(rec, Results[r], 1)]
    /\ gaugeVal' = IF Len(Results[r]) = 0
                   THEN [gaugeVal EXCEPT ![promGauge[MetricOf(w)].h] = Zero]
                   ELSE gaugeVal
    /\ UNCHANGED <<config, fatal, tick, mainPc, promGauge, promGaugeVec, registry, vecVal,
                   lastWrite, pureVars>>

\* lines 105-126 and 132-134: the request is built and getc.Do() returns result r
DoReturn(w, r) ==
    /\ fatal = ""
    /\ wk[w].pc = "Do"
    /\ r \in config.source[w[2]]
    /\ LET rec == [wk[w] EXCEPT !.res = r, !.dims = getDimensions(Dimensions, MetricOf(w))]
       IN  wk' = [wk EXCEPT ![w] =
                    IF Len(Results[r]) = 1 THEN [rec EXCEPT !.pc = "Set128", !.row = 1]
                    ELSE AtRow(rec, Results[r], 1)]
    /\ UNCHANGED <<config, fatal, tick, mainPc, promGauge, promGaugeVec, registry, gaugeVal,
                   vecVal, lastWrite, pureVars>>

\* SetScalar without the return of line 129: the loop of line 132 runs on the one row
SetScalarNoReturn(w) ==
    /\ fatal = ""
    /\ wk[w].pc = "Set128"
    /\ LET valf == Values[wk[w].res][1][1]
           h == promGauge[MetricOf(w)].h
           rec == [wk[w] EXCEPT !.log = Append(@, Entry("setScalar", MetricOf(w), <<>>, valf))]
       IN  /\ gaugeVal' = [gaugeVal EXCEPT ![h] = valf]
           /\ wk' = [wk EXCEPT ![w] = AtRow(rec, RowsOf(w), 1)]
    /\ UNCHANGED <<config, fatal, tick, mainPc, promGauge, promGaugeVec, registry, vecVal,
                   lastWrite, pureVars>>

\* SetScalar that leaves the Gauge alone when a goroutine of the metric started in
\* a later iteration has set it already
SetScalarUnlessNewer(w) ==
    /\ fatal = ""
    /\ wk[w].pc = "Set128"
    /\ LET valf == Values[wk[w].res][1][1]
           h == promGauge[MetricOf(w)].h
           newer == \E v \in DOMAIN wk :
                       /\ MetricOf(v) = MetricOf(w)
                       /\ v[1] > w[1]
                       /\ wk[v].pc = "done"
                       /\ wk[v].log # <<>>
       IN  /\ gaugeVal' = IF newer THEN gaugeVal ELSE [gaugeVal EXCEPT ![h] = valf]
           /\ wk' = [wk EXCEPT ![w].pc = "done",
                               ![w].log = Append(@, Entry("setScalar", MetricOf(w), <<>>, valf))]
    /\ UNCHANGED <<config, fatal, tick, mainPc, promGauge, promGaugeVec, registry, vecVal,
                   lastWrite, pureVars>>

\* lines 127-129: promGauge[metric].Set(valf)
SetScalar(w) ==
    /\ fatal = ""
    /\ wk[w].pc = "Set128"
    /\ LET valf == Values[wk[w].res][1][1]
           h == promGauge[MetricOf(w)].h
       IN  /\ gaugeVal' = [gaugeVal EXCEPT ![h] = valf]
           /\ wk' = [wk EXCEPT ![w].pc = "done",
                               ![w].log = Append(@, Entry("setScalar", MetricOf(w), <<>>, valf))]
    /\ UNCHANGED <<config, fatal, tick, mainPc, promGauge, promGaugeVec, registry, vecVal,
                   lastWrite, pureVars>>

\* label := buildMetricLabel(row[1]), line 135
LabelOf(w) == Labels[wk[w].res][wk[w].row]

\* the GaugeVec a goroutine creates at line 59 for its current row
FreshHandle(w) == <<"v", w[1], w[2], wk[w].row>>

(* lines 135 and 59: row[1] panics on a row of one cell; otherwise        *)
(* registerMetricVec(label) stores a new GaugeVec in promGaugeVec[label]. *)
NewVec(w) ==
    /\ fatal = ""
    /\ wk[w].pc = "New59"
    /\ IF Len(RowOf(w)) < 2
       THEN Panic(w, "index out of range")
       ELSE /\ promGaugeVec' = (LabelOf(w) :> FreshHandle(w)) @@ promGaugeVec
            /\ vecVal' = (FreshHandle(w) :> <<>>) @@ vecVal
            /\ wk' = [wk EXCEPT ![w].pc = "Reg65",
                                ![w].log = Append(@, Entry("register", LabelOf(w), <<>>, Zero))]
            /\ UNCHANGED <<config, fatal, tick, mainPc, promGauge, registry, gaugeVal, lastWrite,
                           pureVars>>

\* RegisterVec in which a second registration replaces the registered GaugeVec
RegisterVecReplaces(w) ==
    /\ fatal = ""
    /\ wk[w].pc = "Reg65"
    /\ LET c == NewGaugeVec(LabelOf(w), promGaugeVec[LabelOf(w)])
           r == Register(registry, c)
       IN  IF r.err \notin {"nil", "AlreadyRegistered"}
           THEN Panic(w, "register error")
           ELSE /\ registry' = (c.name :> c) @@ registry
                /\ wk' = [wk EXCEPT ![w].pc = "Set138"]
                /\ UNCHANGED <<config, fatal, tick, mainPc, promGauge, promGaugeVec, gaugeVal,
                               vecVal, lastWrite, pureVars>>

(* line 65: prometheus.Register(promGaugeVec[metric]) reads the map again *)
(* and registers the GaugeVec it finds there; lines 66-70 branch on err.  *)
RegisterVec(w) ==
    /\ fatal = ""
    /\ wk[w].pc = "Reg65"
    /\ LET r == Register(registry, NewGaugeVec(LabelOf(w), promGaugeVec[LabelOf(w)]))
       IN  IF r.err \notin {"nil", "AlreadyRegistered"}
           THEN Panic(w, "register error")
           ELSE /\ registry' = r.reg
                /\ wk' = [wk EXCEPT ![w].pc = IF r.err = "nil" THEN "Set138" ELSE "Store67",
                                    ![w].are = IF r.err = "nil" THEN NoHandle ELSE r.existing.h]
                /\ UNCHANGED <<config, fatal, tick, mainPc, promGauge, promGaugeVec, gaugeVal,
                               vecVal, lastWrite, pureVars>>

\* line 67: promGaugeVec[metric] = are.ExistingCollector.(*prometheus.GaugeVec)
StoreExisting(w) ==
    /\ fatal = ""
    /\ wk[w].pc = "Store67"
    /\ promGaugeVec' = [promGaugeVec EXCEPT ![LabelOf(w)] = wk[w].are]
    /\ wk' = [wk EXCEPT ![w].pc = "Set138", ![w].are = NoHandle]
    /\ UNCHANGED <<config, fatal, tick, mainPc, promGauge, registry, gaugeVal, vecVal, lastWrite,
                   pureVars>>

(* lines 137-138: row[2] panics on a row of two cells; otherwise          *)
(* promGaugeVec[label].WithLabelValues(category).Set(valf), and the loop  *)
(* goes on to the next row.                                               *)
SetVec(w) ==
    /\ fatal = ""
    /\ wk[w].pc = "Set138"
    /\ IF Len(RowOf(w)) < 3
       THEN Panic(w, "index out of range")
       ELSE LET valf == Values[wk[w].res][wk[w].row][3]
                category == RowOf(w)[1]
                h == promGaugeVec[LabelOf(w)]
                rec == [wk[w] EXCEPT !.log = Append(@, Entry("setVec", LabelOf(w), category,
                                                              valf))]
            IN  /\ vecVal' = [vecVal EXCEPT ![h] = (category :> valf) @@ @]
                /\ lastWrite' = (<<LabelOf(w), category>> :> valf) @@ lastWrite
                /\ wk' = [wk EXCEPT ![w] = AtRow(rec, RowsOf(w), wk[w].row + 1)]
                /\ UNCHANGED <<config, fatal, tick, mainPc, promGauge, promGaugeVec, registry,
                               gaugeVal, pureVars>>

(* ------------------------------------------------------------------ *)
(* Unsynchronized access to the map promGaugeVec                      *)
(* ------------------------------------------------------------------ *)

\* the goroutine is about to assign promGaugeVec[label] (lines 59, 67)
MapWriteAt(w) ==
    \/ wk[w].pc = "New59" /\ Len(RowOf(w)) >= 2
    \/ wk[w].pc = "Store67"

\* the goroutine is about to read promGaugeVec[label] (lines 65, 138)
MapReadAt(w) ==
    \/ wk[w].pc = "Reg65"
    \/ wk[w].pc = "Set138" /\ Len(RowOf(w)) >= 3

(* Two goroutines execute their map accesses at the same time, one of     *)
(* them an assignment: the Go runtime may detect it and end the process   *)
(* ("fatal error: concurrent map writes", "concurrent map read and map    *)
(* write").  When it does not, the accesses take effect one after the     *)
(* other, as the other actions describe.                                  *)
MapRace(w1, w2) ==
    /\ fatal = ""
    /\ w1 # w2
    /\ MapWriteAt(w1)
    /\ MapWriteAt(w2) \/ MapReadAt(w2)
    /\ Throw(IF MapWriteAt(w2) THEN "concurrent map writes"
             ELSE "concurrent map read and map write")

(* ------------------------------------------------------------------ *)
(* The system                                                         *)
(* ------------------------------------------------------------------ *)

Next ==
    \/ \E i \in 1..NumMetrics : Go(i)
    \/ Sleep
    \/ \E w \in WorkerIds : DoError(w)
    \/ \E w \in WorkerIds : DoHang(w)
    \/ \E w \in WorkerIds, r \in DOMAIN Results : DoReturn(w, r)
    \/ \E w \in WorkerIds : SetScalar(w)
    \/ \E w \in WorkerIds : NewVec(w)
    \/ \E w \in WorkerIds : RegisterVec(w)
    \/ \E w \in WorkerIds : StoreExisting(w)
    \/ \E w \in WorkerIds : SetVec(w)
    \/ \E w1 \in WorkerIds, w2 \in WorkerIds : MapRace(w1, w2)

Spec == Init /\ [][Next]_vars

(* ------------------------------------------------------------------ *)
(* The pure functions, applied to inputs drawn from bounded sets      *)
(* ------------------------------------------------------------------ *)

\* characters of the raw strings given to buildMetricLabel
RawAlphabet == {"a", "Z", "5", " ", "(", "_", ":"}
\* characters of the cells given to strconv.ParseFloat
CellAlphabet == {"1", "9", ".", "e", "-", "a"}
\* dimension lists of one entry of config.Dimensions
DimLists == {<<Country>>, <<Country, Device>>}

\* the maps of one entry of config.Dimensions: some metrics, each with a list
DimensionMaps ==
    UNION {[ms -> DimLists] : ms \in SUBSET {ActiveUsers, PageViews}}

\* the lists of at most n dimension maps
RECURSIVE ConfsUpTo(_)
ConfsUpTo(n) ==
    IF n = 0 THEN {<<>>}
    ELSE LET shorter == ConfsUpTo(n - 1)
         IN  shorter \cup {Append(c, m) : c \in {d \in shorter : Len(d) = n - 1},
                                          m \in DimensionMaps}

Call(fn, s, conf) == [fn |-> fn, s |-> s, conf |-> conf]

PureCalls ==
    {Call("buildMetricLabel", raw, <<>>) : raw \in StringsUpTo(RawAlphabet, MaxRawLen)}
    \cup {Call("ParseFloat", cell, <<>>) : cell \in StringsUpTo(CellAlphabet, MaxCellLen)}
    \cup {Call("getDimensions", metric, conf) :
            metric \in {ActiveUsers, PageViews}, conf \in ConfsUpTo(MaxEntries)}

PureInit ==
    /\ config = Run(<<>>, <<>>)
    /\ fatal = ""
    /\ tick = 1
    /\ mainPc = 1
    /\ wk = <<>>
    /\ promGauge = <<>>
    /\ registry = <<>>
    /\ promGaugeVec = <<>>
    /\ gaugeVal = <<>>
    /\ vecVal = <<>>
    /\ lastWrite = <<>>
    /\ pArg \in PureCalls
    /\ pRes = NoResult

CallBuildMetricLabel ==
    /\ pArg.fn = "buildMetricLabel"
    /\ ~pRes.done
    /\ pRes' = [pRes EXCEPT !.done = TRUE, !.out = buildMetricLabel(pArg.s)]
    /\ UNCHANGED <<sysVars, pArg>>

CallGetDimensions ==
    /\ pArg.fn = "getDimensions"
    /\ ~pRes.done
    /\ pRes' = [pRes EXCEPT !.done = TRUE, !.out = getDimensions(pArg.conf, pArg.s)]
    /\ UNCHANGED <<sysVars, pArg>>

CallParseFloat ==
    /\ pArg.fn = "ParseFloat"
    /\ ~pRes.done
    /\ pRes' = [pRes EXCEPT !.done = TRUE, !.pf = ParseFloat(pArg.s)]
    /\ UNCHANGED <<sysVars, pArg>>

PureNext ==
    \/ CallBuildMetricLabel
    \/ CallGetDimensions
    \/ CallParseFloat

PureSpec == PureInit /\ [][PureNext]_vars

(* ------------------------------------------------------------------ *)
(* Properties                                                         *)
(* ------------------------------------------------------------------ *)

\* the goroutine has been started and has not ended
InFlight(w) == wk[w].pc \notin {"none", "done", "panic"}

\* every goroutine started so far has returned from collectMetric
Quiescent == fatal = "" /\ \A w \in DOMAIN wk : wk[w].pc \in {"none", "done"}

\* the goroutine is inside registerMetricVec(label), lines 58-72
InRegister(w) == wk[w].pc \in {"Reg65", "Store67"} \/ (wk[w].pc = "New59" /\ Len(RowOf(w)) >= 2)

\* the process was ended by the runtime check of concurrent map access
RaceFatal == fatal \in {"concurrent map writes", "concurrent map read and map write"}

\* what a scrape reads for <<label, category>>: the value held by the registered series
Visible(label, category) ==
    IF SeriesName(label) \notin DOMAIN registry THEN <<"absent">>
    ELSE LET h == registry[SeriesName(label)].h
         IN  IF h \in DOMAIN vecVal /\ category \in DOMAIN vecVal[h]
             THEN <<"value", vecVal[h][category]>>
             ELSE <<"absent">>

(* C1: for every derived name D, once D is registered the registry holds   *)
(* exactly one GaugeVec for D, and a further registerMetricVec(D),         *)
(* sequential or concurrent, never ends the process.                      *)
C1_RegisterVectorIdempotent ==
    /\ \A w \in DOMAIN wk :
          wk[w].pc \in {"Store67", "Set138"} =>
             /\ SeriesName(LabelOf(w)) \in DOMAIN registry
             /\ registry[SeriesName(LabelOf(w))].kind = "GaugeVec"
    /\ fatal # "register error"
    /\ ~ \E w \in DOMAIN wk :
          /\ RaceFatal
          /\ InRegister(w)
          /\ SeriesName(LabelOf(w)) \in DOMAIN registry

(* C2: under any interleaving of goroutines with rows of the same derived  *)
(* name, every Set of line 138 reaches the registered series: once all    *)
(* started goroutines have finished, a scrape reads for every written     *)
(* <<label, category>> the value of the last write made to that pair.     *)
C2_LastWriteVisible ==
    Quiescent =>
       \A key \in DOMAIN lastWrite : Visible(key[1], key[2]) = <<"value", lastWrite[key]>>

\* index of the last entry among the first i of conf that defines metric, or 0
RECURSIVE LastDefining(_, _, _)
LastDefining(conf, metric, i) ==
    IF i = 0 THEN 0
    ELSE IF metric \in DOMAIN conf[i] THEN i
    ELSE LastDefining(conf, metric, i - 1)

(* C3: getDimensions(metric) returns the comma-joined dimension list of    *)
(* the last entry of config.Dimensions that defines metric, also when     *)
(* later entries do not define it, and the empty string only if no entry  *)
(* defines metric.                                                        *)
C3_LastDefiningEntry ==
    (pRes.done /\ pArg.fn = "getDimensions") =>
        LET i == LastDefining(pArg.conf, pArg.s, Len(pArg.conf))
        IN  /\ pRes.out = IF i = 0 THEN <<>> ELSE Join(pArg.conf[i][pArg.s], <<",">>)
            /\ pRes.out = <<>> => i = 0

\* the goroutine holds a response of exactly one row
OneRowWorker(w) == wk[w].res # 0 /\ Len(RowsOf(w)) = 1

(* C4: a goroutine whose fetch returns exactly one row takes one step     *)
(* after the fetch: it sets the Gauge of its metric to the float parsed   *)
(* from the first cell of the row, and it changes neither the registry,   *)
(* nor the map of vectors, nor the value of any vector.                   *)
C4_OneRowSetsScalar ==
    [][\A w \in DOMAIN wk :
         /\ (wk[w].pc = "Do" /\ wk'[w].res # 0 /\ Len(Results[wk'[w].res]) = 1)
               => wk'[w].pc = "Set128"
         /\ (OneRowWorker(w) /\ wk'[w] # wk[w]) =>
               /\ wk[w].pc = "Set128"
               /\ wk'[w].pc = "done"
               /\ gaugeVal' = [gaugeVal EXCEPT ![promGauge[MetricOf(w)].h] =
                                                  ParseFloat(RowsOf(w)[1][1]).f]
               /\ UNCHANGED <<registry, promGaugeVec, vecVal, fatal>>]_vars

C4_Witness ==
    \E w \in DOMAIN wk :
        /\ wk[w].pc = "done"
        /\ RowsOf(w) = OneRow
        /\ gaugeVal[promGauge[MetricOf(w)].h] = Num(425, -1)
        /\ vecVal = <<>>

\* every row of the response has the three cells [category, dimension value, value]
ThreeCells(rows) == \A i \in DOMAIN rows : Len(rows[i]) >= 3

\* the registry operations the rows 1..n ask for, in order
RECURSIVE Updates(_, _)
Updates(rows, n) ==
    IF n = 0 THEN <<>>
    ELSE IF Contains(rows[n][1], NotSet) THEN Updates(rows, n - 1)
    ELSE Updates(rows, n - 1)
            \o <<Entry("register", buildMetricLabel(rows[n][2]), <<>>, Zero),
                 Entry("setVec", buildMetricLabel(rows[n][2]), rows[n][1],
                       ParseFloat(rows[n][3]).f)>>

\* Updates for every response and every number of rows, tabulated once
ExpectedUpdates ==
    [r \in DOMAIN Results |-> [n \in 0..Len(Results[r]) |->
        IF ThreeCells(Results[r]) THEN Updates(Results[r], n) ELSE <<>>]]

(* C5: a goroutine whose fetch returns zero or several rows performs, row *)
(* by row, exactly one registerMetricVec and one Set per row whose        *)
(* category does not contain "(not set)": on the label built from the     *)
(* second cell, at the category of the first cell, with the value of the  *)
(* third cell.  A dropped row causes no registration and no write.        *)
C5_OneUpdatePerRow ==
    /\ \A w \in DOMAIN wk :
          (wk[w].res # 0 /\ Len(RowsOf(w)) # 1 /\ ThreeCells(RowsOf(w))) =>
              LET rows == RowsOf(w)
                  before == ExpectedUpdates[wk[w].res][wk[w].row - 1]
              IN  CASE wk[w].pc = "done" -> wk[w].log = ExpectedUpdates[wk[w].res][Len(rows)]
                    [] wk[w].pc = "New59" -> wk[w].log = before
                    [] wk[w].pc \in {"Reg65", "Store67", "Set138"} ->
                          wk[w].log = Append(before, Entry("register", LabelOf(w), <<>>, Zero))
                    [] OTHER -> FALSE
    /\ \A label \in DOMAIN promGaugeVec :
          \E r \in DOMAIN Results : \E i \in DOMAIN Results[r] :
              /\ Len(Results[r][i]) >= 2
              /\ ~Contains(Results[r][i][1], NotSet)
              /\ label = buildMetricLabel(Results[r][i][2])

C5_Witness ==
    \E w \in DOMAIN wk :
        /\ wk[w].pc = "done"
        /\ RowsOf(w) = DroppedThenRow
        /\ wk[w].log = <<Entry("register", <<"r","t",":","_","m","o","b","i","l","e">>, <<>>, Zero),
                         Entry("setVec", <<"r","t",":","_","m","o","b","i","l","e">>, US, Num(7, 0))>>
        /\ Visible(<<"r","t",":","_","m","o","b","i","l","e">>, US) = <<"value", Num(7, 0)>>

(* C6: in every iteration of the poll loop main starts one goroutine for  *)
(* each configured metric, whatever goroutines of earlier iterations are  *)
(* still running: every <<iteration, metric>> main has passed has its     *)
(* goroutine and no other has, and neither the next go statement nor the  *)
(* return of time.Sleep ever waits for a goroutine.                       *)
C6_OneWorkerPerMetricPerTick ==
    /\ \A w \in DOMAIN wk :
          wk[w].pc # "none" <=> (w[1] < tick \/ (w[1] = tick /\ w[2] < mainPc))
    /\ (fatal = "" /\ mainPc <= NumMetrics /\ Started < MaxGoroutines) => ENABLED Go(mainPc)
    /\ (fatal = "" /\ mainPc = NumMetrics + 1 /\ tick < MaxTicks) => ENABLED Sleep

\* two goroutines of the first metric, of two iterations, are running at once
C6_Witness ==
    /\ tick = 2
    /\ InFlight(<<1, 1>>)
    /\ InFlight(<<2, 1>>)

(* C7: when getc.Do() of a goroutine returns an error the process ends:   *)
(* that goroutine has written and writes nothing to the registry, and     *)
(* once the process has ended there is no further iteration, goroutine    *)
(* start, fetch or registry write.                                        *)
C7_FetchErrorTerminates ==
    [][/\ fatal # "" => UNCHANGED vars
       /\ \A w \in DOMAIN wk :
             (wk[w].pc = "Do" /\ wk'[w].pc \notin {"Do", "hung"} /\ wk'[w].res = 0) =>
                 /\ fatal' = "fetch error"
                 /\ wk[w].log = <<>>
                 /\ wk'[w].log = <<>>
                 /\ UNCHANGED <<tick, mainPc, promGauge, promGaugeVec, registry, gaugeVal,
                                vecVal, lastWrite>>]_vars

\* a fetch error has ended the process while another goroutine was registering
C7_Witness ==
    /\ fatal = "fetch error"
    /\ \E w \in DOMAIN wk : wk[w].pc = "panic" /\ wk[w].res = 0 /\ wk[w].log = <<>>
    /\ \E v \in DOMAIN wk : wk[v].pc = "Reg65"

(* ------------------------------------------------------------------ *)
(* Fair scheduling                                                    *)
(* ------------------------------------------------------------------ *)

\* a step of main: a go statement or the return of time.Sleep
MainStep == (\E i \in 1..NumMetrics : Go(i)) \/ Sleep

\* a step of a goroutine after getc.Do() has returned its result
WorkerStep ==
    \E w \in WorkerIds :
        SetScalar(w) \/ NewVec(w) \/ RegisterVec(w) \/ StoreExisting(w) \/ SetVec(w)

(* The Go scheduler keeps running main and the runnable goroutines, and   *)
(* time.Sleep returns.  A goroutine makes finitely many steps after its   *)
(* fetch, so the fairness of their steps taken together starves none.     *)
(* Nothing obliges getc.Do() to return.                                   *)
FairSpec ==
    /\ Init
    /\ [][Next]_vars
    /\ WF_vars(MainStep)
    /\ WF_vars(WorkerStep)

\* getc.Do() of the goroutine has returned a result
Returned(w) == w \in DOMAIN wk /\ wk[w].res # 0

\* the goroutine has returned from collectMetric
Completed(w) == w \in DOMAIN wk /\ wk[w].pc = "done"

\* main has started the last goroutine the model follows
MainAtBound == Started >= MaxGoroutines \/ (tick = MaxTicks /\ mainPc = NumMetrics + 1)

(* C8: a goroutine whose getc.Do() never returns stalls only itself: in   *)
(* every fair behaviour, with goroutines that hang or without, either the *)
(* process ends or from some point on main has gone through its           *)
(* iterations (up to the last one the model follows) and every goroutine  *)
(* whose fetch has returned has completed collectMetric.                  *)
C8_HungFetchStallsOnlyItself ==
    <>[](\/ fatal # ""
         \/ /\ MainAtBound
            /\ \A w \in DOMAIN wk : Returned(w) => Completed(w))

\* the goroutine of the first iteration hangs, the one of the second iteration for the
\* same metric has completed its registry update
C8_Witness ==
    \E h \in DOMAIN wk, w \in DOMAIN wk :
        /\ wk[h].pc = "hung"
        /\ h[1] = 1
        /\ w[1] = 2
        /\ w[2] = h[2]
        /\ wk[w].pc = "done"
        /\ wk[w].log # <<>>
        /\ fatal = ""

\* c is an ASCII letter or digit
IsAsciiLetterOrDigit(c) == c \in Lower \cup Upper \cup Digit

(* C9: for every raw string, buildMetricLabel(raw) is "rt:", one           *)
(* underscore, then exactly the ASCII letters and digits of raw in their  *)
(* order; the output holds no space.                                      *)
C9_SanitizeKeepsAlnum ==
    (pRes.done /\ pArg.fn = "buildMetricLabel") =>
        /\ pRes.out = <<"r","t",":","_">> \o SelectSeq(pArg.s, IsAsciiLetterOrDigit)
        /\ \A i \in DOMAIN pRes.out : pRes.out[i] # " "

C9_Witness ==
    /\ pRes.done
    /\ pArg.fn = "buildMetricLabel"
    /\ pArg.s = <<"a", " ", "5">>
    /\ pRes.out = <<"r","t",":","_","a","5">>

IsWrite(e) == e.op \in {"setScalar", "setVec"}
CellOf(e) == <<e.op, e.name, e.cat>>

(* C11: writes of goroutines of different metrics are independent: for    *)
(* two distinct configured metrics, no goroutine of the one writes a      *)
(* scalar value or a cell <<label, category>> of a vector that a          *)
(* goroutine of the other writes.                                         *)
C11_CrossMetricIndependence ==
    \A w \in DOMAIN wk, v \in DOMAIN wk :
        MetricOf(w) # MetricOf(v) =>
            \A i \in DOMAIN wk[w].log, j \in DOMAIN wk[v].log :
                (IsWrite(wk[w].log[i]) /\ IsWrite(wk[v].log[j])) =>
                    CellOf(wk[w].log[i]) # CellOf(wk[v].log[j])

(* C12: registration of a scalar series at startup ends the process when   *)
(* prometheus.Register refuses it for another reason than "already        *)
(* registered": the for loop of main never runs a goroutine while the     *)
(* Gauge of a configured metric was refused.                              *)
C12_RefusedScalarTerminates ==
    (fatal = "" /\ Started > 0) =>
        \A i \in 1..NumMetrics :
            InitRegisterErr(config.Metrics, i) \in {"nil", "AlreadyRegistered"}

\* goroutine w has set a Gauge (line 128), a cell of a GaugeVec (line 138)
WritesScalar(w) == \E i \in DOMAIN wk[w].log : wk[w].log[i].op = "setScalar"
WritesVector(w) == \E i \in DOMAIN wk[w].log : wk[w].log[i].op = "setVec"

(* C13: for every configured metric, the goroutines of the metric update  *)
(* either its scalar series or vector series, never both in one run of    *)
(* the process.                                                           *)
C13_ScalarOrVectorPerMetric ==
    \A w \in DOMAIN wk, v \in DOMAIN wk :
        MetricOf(w) = MetricOf(v) => ~(WritesScalar(w) /\ WritesVector(v))

(* C13 as amended: every goroutine updates either the scalar series of    *)
(* its metric or vector series, never both: the shape of its own response *)
(* decides, and goroutines of one metric may differ.                      *)
C13_ScalarOrVectorPerWorker ==
    \A w \in DOMAIN wk : ~(WritesScalar(w) /\ WritesVector(w))

\* two finished goroutines of one metric, one wrote the Gauge, one a GaugeVec
C13_Witness ==
    \E w \in DOMAIN wk, v \in DOMAIN wk :
        /\ w # v
        /\ MetricOf(w) = MetricOf(v)
        /\ wk[w].pc = "done" /\ wk[v].pc = "done"
        /\ WritesScalar(w) /\ WritesVector(v)

\* the registry and everything a scrape or a goroutine reads of it
registryVars == <<registry, promGauge, promGaugeVec, gaugeVal, vecVal, lastWrite>>

(* C14: a fetch that succeeds with zero rows leaves the registry          *)
(* unchanged: the step in which getc.Do() returns no row ends the         *)
(* goroutine and changes no collector, map or value, and the goroutine    *)
(* has made no registration and no Set.                                   *)
C14_ZeroRowsLeaveRegistry ==
    [][\A w \in DOMAIN wk :
          /\ (wk[w].pc = "Do" /\ wk'[w].res # 0 /\ Len(Results[wk'[w].res]) = 0) =>
                (wk'[w].pc = "done" /\ UNCHANGED registryVars)
          /\ (wk[w].res # 0 /\ Len(RowsOf(w)) = 0) =>
                (wk[w].pc = "done" /\ wk[w].log = <<>> /\ wk'[w] = wk[w])]_vars

\* a goroutine has ended on a result of zero rows; the Gauge of its metric
\* still holds the value an earlier result gave it
C14_Witness ==
    \E w \in DOMAIN wk :
        /\ wk[w].res = Id(NoRow)
        /\ wk[w].pc = "done"
        /\ gaugeVal[promGauge[MetricOf(w)].h] # Zero

\* this step is the Set of line 128 by a goroutine, on the Gauge h
SetsGauge(w, h) ==
    /\ wk[w].pc = "Set128"
    /\ promGauge[MetricOf(w)].h = h
    /\ gaugeVal'[h] = Values[wk[w].res][1][1]

\* this step is the Set of line 138 by a goroutine, on cell c of the GaugeVec h
SetsCell(w, h, c) ==
    /\ wk[w].pc = "Set138"
    /\ Len(RowOf(w)) >= 3
    /\ promGaugeVec[LabelOf(w)] = h
    /\ RowOf(w)[1] = c
    /\ vecVal'[h][c] = Values[wk[w].res][wk[w].row][3]

(* C15: series are never deleted: in every step the registered series,    *)
(* the collectors they are registered with, the Gauges, the GaugeVecs and *)
(* the cells of each GaugeVec stay or grow, and a Gauge or a cell changes *)
(* its value only by a Set to that Gauge or cell, to the value set.       *)
C15_SeriesOnlyGrow ==
    [][/\ \A n \in DOMAIN registry : n \in DOMAIN registry' /\ registry'[n] = registry[n]
       /\ \A h \in DOMAIN gaugeVal :
             /\ h \in DOMAIN gaugeVal'
             /\ gaugeVal'[h] # gaugeVal[h] => \E w \in DOMAIN wk : SetsGauge(w, h)
       /\ \A h \in DOMAIN vecVal :
             /\ h \in DOMAIN vecVal'
             /\ \A c \in DOMAIN vecVal[h] :
                   /\ c \in DOMAIN vecVal'[h]
                   /\ vecVal'[h][c] # vecVal[h][c] => \E w \in DOMAIN wk : SetsCell(w, h, c)]_vars

\* a second registration of a series was answered with the registered
\* GaugeVec, which holds the cells written so far
C15_Witness ==
    \E w \in DOMAIN wk :
        /\ wk[w].pc = "Store67"
        /\ wk[w].are \in DOMAIN vecVal
        /\ vecVal[wk[w].are] # <<>>
        /\ \E n \in DOMAIN registry : registry[n].h = wk[w].are

\* raw holds no ASCII letter and no digit (the empty string among them)
NoLetterOrDigit(raw) == \A i \in DOMAIN raw : ~IsAsciiLetterOrDigit(raw[i])

(* C16: buildMetricLabel applied to the empty string, and to any string   *)
(* that holds no ASCII letter or digit, yields just the prefix "rt:" with *)
(* nothing after it.                                                      *)
C16_EmptyYieldsPrefix ==
    (pRes.done /\ pArg.fn = "buildMetricLabel" /\ NoLetterOrDigit(pArg.s)) =>
        pRes.out = Prefix

(* C16 as amended: buildMetricLabel applied to the empty string, and to   *)
(* any string that holds no ASCII letter or digit, yields the prefix      *)
(* "rt:" followed by the one underscore of the join, and nothing after.   *)
C16_EmptyYieldsPrefixUnderscore ==
    (pRes.done /\ pArg.fn = "buildMetricLabel" /\ NoLetterOrDigit(pArg.s)) =>
        pRes.out = Prefix \o <<"_">>

C16_Witness ==
    /\ pRes.done
    /\ pArg.fn = "buildMetricLabel"
    /\ pArg.s = <<"(", " ">>
    /\ pRes.out = <<"r","t",":","_">>

\* the Gauge that the goroutines of the metric of w set
GaugeOf(w) == gaugeVal[promGauge[MetricOf(w)].h]

(* C17: for every configured metric, once every goroutine started has     *)
(* returned, the Gauge of the metric holds the value fetched by the       *)
(* goroutine of the most recent iteration whose fetch returned one row:   *)
(* a goroutine of an earlier iteration never overwrites the value set by  *)
(* a goroutine of the metric started in a later iteration.                *)
C17_LatestTickWins ==
    Quiescent =>
        \A w \in DOMAIN wk :
            (/\ OneRowWorker(w)
             /\ ~\E v \in DOMAIN wk :
                    MetricOf(v) = MetricOf(w) /\ v[1] > w[1] /\ OneRowWorker(v))
            => GaugeOf(w) = Values[wk[w].res][1][1]

(* C17 as amended: the Gauge of a metric holds the value of the Set that  *)
(* was executed last, whichever iteration started its goroutine: every    *)
(* Set of line 128 writes the value its goroutine fetched, also over the  *)
(* value of a goroutine started in a later iteration, and nothing else    *)
(* changes the Gauge.                                                     *)
C17_LastExecutedSetWins ==
    [][/\ \A w \in DOMAIN wk :
             (wk[w].pc = "Set128" /\ wk'[w].pc = "done") =>
                 gaugeVal'[promGauge[MetricOf(w)].h] = Values[wk[w].res][1][1]
       /\ \A h \in DOMAIN gaugeVal :
             gaugeVal'[h] # gaugeVal[h] => \E w \in DOMAIN wk : SetsGauge(w, h)]_vars

\* every goroutine has returned; the goroutine of the first iteration fetched
\* 42.5, that of the second "abc", and the Gauge holds 42.5
C17_Witness ==
    /\ Quiescent
    /\ \E w \in DOMAIN wk, v \in DOMAIN wk :
          /\ MetricOf(w) = MetricOf(v)
          /\ w[1] = 1 /\ v[1] = 2
          /\ wk[w].res = Id(OneRow) /\ wk[v].res = Id(OneRowAbc)
          /\ wk[w].pc = "done" /\ wk[v].pc = "done"
          /\ GaugeOf(w) = Values[Id(OneRow)][1][1]

(* C18: a goroutine whose fetch succeeds runs collectMetric to its end    *)
(* without ending the process, whatever the shape of the response, rows   *)
(* of fewer than three cells included: no goroutine panics after          *)
(* getc.Do() has returned a result.                                       *)
C18_SuccessfulFetchCompletes ==
    \A w \in DOMAIN wk : wk[w].res # 0 => wk[w].pc # "panic"

(* C19: after init(), for every configured metric, promGauge[metric] is   *)
(* the collector registered under the series name of the metric, for      *)
(* every list config.Metrics, lists that repeat a name or hold two names  *)
(* of the same series name included.                                      *)
C19_PromGaugeIsRegistered ==
    \A i \in 1..NumMetrics :
        LET metric == config.Metrics[i]
        IN  /\ SeriesName(metric) \in DOMAIN registry
            /\ registry[SeriesName(metric)].h = promGauge[metric].h

====
